---- MODULE Spec2Model ----
(***************************************************************************)
(* Repository synthesizer: the bottom-up, checkpointed tree-synthesis      *)
(* pipeline of scenarios/repo_synthesizer/core (hierarchy.py, traversal.py,*)
(* state.py, orchestrator.py).                                             *)
(*                                                                         *)
(* A filesystem entry is named by its path. Paths are the numbers          *)
(* 1..MaxNodes, numbered in the order in which TreeBuilder._build_node     *)
(* meets the entries (sorted listing, directories entered at once), so     *)
(* that the order of the numbers is the sorted order of the paths. Path 1  *)
(* is the repository root and 0 stands for "no path" (parent of the root). *)
(***************************************************************************)
EXTENDS Integers, Sequences, FiniteSets, TLC

\* ------------------------------------------------------------------ bounds
MaxNodes == 3
MaxFaults == 1
MaxCallsPerRun == 2
MaxCheckpoints == 8

\* ------------------------------------------------------- program constants
DefaultMaxDepth == 10
LargeFileThreshold == 50000
ContentKeep == 1000
KeepCount == 5

None == "None"
NoPath == 0
RootPath == 1
Paths == 1..MaxNodes

\* The one instant datetime.now() yields in this model, and its isoformat().
Now == "now"
IsoFormat(dt) == CASE dt = Now -> "iso-now"
FromIsoFormat(s) == CASE s = "iso-now" -> Now

\* str(path) and Path(path_str)
StrOfPath(p) == <<"str", p>>
PathOfStr(s) == s[2]

\* --------------------------------------------------------- generic helpers
Min(S) == CHOOSE x \in S : \A y \in S : x <= y
Max(S) == CHOOSE x \in S : \A y \in S : x >= y

RECURSIVE SortedSeq(_)
SortedSeq(S) == IF S = {} THEN <<>> ELSE <<Min(S)>> \o SortedSeq(S \ {Min(S)})

Range(s) == {s[i] : i \in DOMAIN s}

\* A dict or list built by a loop or a comprehension: f itself. The
\* comparison has TLC enumerate f once, where it would evaluate the rule of
\* f again at every application.
Strict(f) == IF f = f THEN f ELSE f

\* ------------------------------------------------------------- filesystem
\* An unchanged directory tree on disk: n entries, each with its parent
\* directory, its kind and what iterdir() does on it. Entries are numbered
\* in the order of their paths.
RECURSIVE FsAncestorsOrSelf(_, _)
FsAncestorsOrSelf(f, i) ==
    IF i = NoPath THEN {} ELSE {i} \cup FsAncestorsOrSelf(f, f.parent[i])

WellFormedFs(f) ==
    /\ f.parent[RootPath] = NoPath
    /\ f.kind[RootPath] = "directory"
    /\ \A i \in 2..f.n :
          /\ f.parent[i] \in 1..(i - 1)
          /\ f.kind[f.parent[i]] = "directory"
          /\ f.parent[i] \in FsAncestorsOrSelf(f, i - 1)

\* The repositories whose directories can all be listed.
FileSystems ==
    UNION { { f \in [n : {k}, parent : [1..k -> 0..(k - 1)],
                     kind : [1..k -> {"file", "directory"}],
                     iterdir : {[i \in 1..k |-> "listed"]}] : WellFormedFs(f) }
            : k \in 1..MaxNodes }

\* What path.iterdir() can do: list the entries, or raise.
IterdirOutcomes == {"listed", "PermissionError", "OSError"}

\* The repositories where listing a directory may fail.
FileSystemsWithFailures ==
    UNION { { [f EXCEPT !.iterdir = e] :
                e \in { g \in [1..f.n -> IterdirOutcomes] :
                          \A i \in 1..f.n :
                             f.kind[i] = "file" => g[i] = "listed" } }
            : f \in FileSystems }

FsChildSet(f, i) == { c \in 1..f.n : f.parent[c] = i }

\* ------------------------------------------------------------ SynthesisNode
NewNode(p, kind, depth) ==
    [path |-> p, type |-> kind, depth |-> depth,
     content |-> <<>>, synthesis |-> None, key_insights |-> <<>>,
     parent |-> NoPath, children |-> <<>>,
     processed |-> FALSE, error |-> None, processed_at |-> None]

is_file(node) == node.type = "file"
is_directory(node) == node.type = "directory"

\* ------------------------------------------------------------ SynthesisTree
RECURSIVE Traverse(_, _)
RECURSIVE TraverseAll(_, _)
Traverse(nodes, p) == <<p>> \o TraverseAll(nodes, nodes[p].children)
TraverseAll(nodes, cs) ==
    IF cs = <<>> THEN <<>>
    ELSE Traverse(nodes, Head(cs)) \o TraverseAll(nodes, Tail(cs))

ProcessedCount(nodes, order) ==
    Cardinality({ i \in DOMAIN order : nodes[order[i]].processed })

RebuildIndices(nodes, root, maxDepth) ==
    LET order == Traverse(nodes, root) IN
    [root |-> root, max_depth |-> maxDepth, nodes |-> nodes,
     node_map |-> order,
     total_nodes |-> Len(order),
     file_count |-> Cardinality({ i \in DOMAIN order : is_file(nodes[order[i]]) }),
     directory_count |->
         Cardinality({ i \in DOMAIN order : ~is_file(nodes[order[i]]) }),
     processed_nodes |-> ProcessedCount(nodes, order)]

NoTree ==
    [root |-> NoPath, max_depth |-> 0, nodes |-> <<>>, node_map |-> <<>>,
     total_nodes |-> 0, file_count |-> 0, directory_count |-> 0,
     processed_nodes |-> 0]

DepthKeys(t) == { t.nodes[p].depth : p \in Range(t.node_map) }
DepthMapAt(t, d) == SelectSeq(t.node_map, LAMBDA p : t.nodes[p].depth = d)

AllChildrenProcessed(t, node) ==
    \A i \in DOMAIN node.children : t.nodes[node.children[i]].processed

\* Mutant: the readiness test of line 173 inverted.
IsReady_inverted(t, node) == is_file(node) \/ ~AllChildrenProcessed(t, node)

IsReady(t, node) == is_file(node) \/ AllChildrenProcessed(t, node)

\* Mutant: the nodes of depth d are not filtered by their processed flag.
ReadyNodesAt_with_processed(t, d) ==
    SelectSeq(DepthMapAt(t, d), LAMBDA p : IsReady(t, t.nodes[p]))

ReadyNodesAt(t, d) ==
    SelectSeq(DepthMapAt(t, d),
              LAMBDA p : ~t.nodes[p].processed /\ IsReady(t, t.nodes[p]))

RECURSIVE ScanDepths(_, _)
ScanDepths(t, depths) ==
    IF depths = <<>> THEN <<>>
    ELSE IF ReadyNodesAt(t, Head(depths)) # <<>>
         THEN ReadyNodesAt(t, Head(depths))
         ELSE ScanDepths(t, Tail(depths))

Reverse(s) == [i \in 1..Len(s) |-> s[Len(s) + 1 - i]]

\* Mutant: the deepest level alone is scanned (get_deepest_nodes).
DepthScanOrder_deepest_only(t) == <<Max(DepthKeys(t))>>

DepthScanOrder(t) == Reverse(SortedSeq(DepthKeys(t)))

\* Mutant: a top-down scan, the unprocessed nodes of the shallowest level.
get_next_batch_topdown(t) ==
    LET open == { d \in DepthKeys(t) :
                    \E p \in Range(DepthMapAt(t, d)) : ~t.nodes[p].processed }
    IN IF open = {} THEN <<>>
       ELSE SelectSeq(DepthMapAt(t, Min(open)), LAMBDA p : ~t.nodes[p].processed)

get_next_batch(t) == ScanDepths(t, DepthScanOrder(t))

\* Mutant: the node is counted and stamped but not flagged.
mark_processed_not_flagged(t, p) ==
    [t EXCEPT !.nodes[p].processed_at = Now, !.processed_nodes = @ + 1]

\* Mutant: the node is flagged and counted but gets no processed_at.
mark_processed_no_stamp(t, p) ==
    [t EXCEPT !.nodes[p].processed = TRUE, !.processed_nodes = @ + 1]

mark_processed(t, p) ==
    [t EXCEPT !.nodes[p].processed = TRUE,
              !.nodes[p].processed_at = Now,
              !.processed_nodes = @ + 1]

\* -------------------------------------------------------------- TreeBuilder
\* The orders in which iterdir() can return the entries of directory i.
ListingOrders(S) ==
    { s \in [1..Cardinality(S) -> S] : \A x \in S : \E j \in DOMAIN s : s[j] = x }

\* One listing order for every entry of the repository.
Listings(f) ==
    { l \in [1..f.n -> UNION { ListingOrders(FsChildSet(f, i)) : i \in 1..f.n }] :
        \A i \in 1..f.n : Range(l[i]) = FsChildSet(f, i) }

\* Mutant: the listing is taken in the order iterdir() returns it.
sorted_as_listed(items) == items

RECURSIVE sorted(_)
InsertSorted(x, s) ==
    LET before == SelectSeq(s, LAMBDA y : y <= x)
        after == SelectSeq(s, LAMBDA y : y > x)
    IN before \o <<x>> \o after
sorted(items) ==
    IF items = <<>> THEN <<>>
    ELSE InsertSorted(Head(items), sorted(Tail(items)))

\* Mutant: the limit test of line 116 with > for >=.
AtDepthLimit_off_by_one(depth, maxDepth) == depth > maxDepth

AtDepthLimit(depth, maxDepth) == depth >= maxDepth

\* Mutant: the except clauses of lines 158-163 record nothing.
ListingError_unrecorded(outcome) == None

\* node.error as set by the except clauses of _build_node.
ListingError(outcome) ==
    IF outcome = "PermissionError" THEN "Permission denied" ELSE "str(e)"

\* Mutant: add_child appends the child and leaves its parent pointer.
add_child_no_parent(child, parent) == child

\* add_child, the part that changes the child.
add_child(child, parent) == [child EXCEPT !.parent = parent]

\* The directory at that depth is listed and its entries become nodes.
Listed(f, i, depth, maxDepth) ==
    /\ f.kind[i] = "directory"
    /\ ~AtDepthLimit(depth, maxDepth)
    /\ f.iterdir[i] = "listed"

RECURSIVE BuildNode(_, _, _, _, _)
\* The entries created below directory i, each with its depth.
BuildNode(f, i, depth, maxDepth, listing) ==
    IF AtDepthLimit(depth, maxDepth) THEN {}
    ELSE IF f.iterdir[i] # "listed" THEN {}
    ELSE LET items == sorted(listing[i]) IN
         UNION { {<<items[j], depth + 1>>} \cup
                 (IF f.kind[items[j]] = "directory"
                  THEN BuildNode(f, items[j], depth + 1, maxDepth, listing)
                  ELSE {})
                 : j \in DOMAIN items }

build_tree(f, maxDepth, listing) ==
    LET made == {<<RootPath, 0>>}
                  \cup BuildNode(f, RootPath, 0, maxDepth, listing)
        ps == { m[1] : m \in made }
        depthOf(p) == (CHOOSE m \in made : m[1] = p)[2]
        built(p) ==
            LET node == NewNode(p, f.kind[p], depthOf(p))
            IN IF p = RootPath THEN node ELSE add_child(node, f.parent[p])
        nodes == Strict([p \in ps |->
                    [built(p) EXCEPT
                        !.children =
                            IF Listed(f, p, depthOf(p), maxDepth)
                            THEN sorted(listing[p]) ELSE <<>>,
                        !.error =
                            IF /\ f.kind[p] = "directory"
                               /\ ~AtDepthLimit(depthOf(p), maxDepth)
                               /\ f.iterdir[p] # "listed"
                            THEN ListingError(f.iterdir[p]) ELSE None]])
    IN RebuildIndices(nodes, RootPath, maxDepth)

\* ------------------------------------------- serialization (hierarchy.py)
NodeToDict(node) ==
    [path |-> StrOfPath(node.path), type |-> node.type, depth |-> node.depth,
     content |-> IF node.content # <<>> /\ node.content[1] > 0
                 THEN <<IF node.content[1] > ContentKeep
                        THEN ContentKeep ELSE node.content[1]>>
                 ELSE <<>>,
     synthesis |-> node.synthesis, key_insights |-> node.key_insights,
     processed |-> node.processed, error |-> node.error,
     processed_at |-> IF node.processed_at # None
                      THEN IsoFormat(node.processed_at) ELSE None,
     children_paths |->
         [i \in DOMAIN node.children |-> StrOfPath(node.children[i])]]

TreeToDict(t) ==
    [root |-> NodeToDict(t.nodes[t.root]), max_depth |-> t.max_depth,
     total_nodes |-> t.total_nodes, processed_nodes |-> t.processed_nodes,
     file_count |-> t.file_count, directory_count |-> t.directory_count,
     all_nodes |-> Strict([i \in DOMAIN t.node_map |->
                             [key |-> StrOfPath(t.node_map[i]),
                              value |-> NodeToDict(t.nodes[t.node_map[i]])]])]

\* Mutant: the processed flag is not read back (every node unprocessed).
NodeFromDict_unprocessed(path, d) ==
    [path |-> path, type |-> d.type, depth |-> d.depth,
     content |-> d.content, synthesis |-> d.synthesis,
     key_insights |-> d.key_insights,
     parent |-> NoPath, children |-> <<>>,
     processed |-> FALSE, error |-> d.error,
     processed_at |-> IF d.processed_at # None
                      THEN FromIsoFormat(d.processed_at) ELSE None]

\* Mutant: the error is not read back.
NodeFromDict_no_error(path, d) ==
    [path |-> path, type |-> d.type, depth |-> d.depth,
     content |-> d.content, synthesis |-> d.synthesis,
     key_insights |-> d.key_insights,
     parent |-> NoPath, children |-> <<>>,
     processed |-> d.processed, error |-> None,
     processed_at |-> IF d.processed_at # None
                      THEN FromIsoFormat(d.processed_at) ELSE None]

\* The node built from one entry of "all_nodes", before it is linked.
NodeFromDict(path, d) ==
    [path |-> path, type |-> d.type, depth |-> d.depth,
     content |-> d.content, synthesis |-> d.synthesis,
     key_insights |-> d.key_insights,
     parent |-> NoPath, children |-> <<>>,
     processed |-> d.processed, error |-> d.error,
     processed_at |-> IF d.processed_at # None
                      THEN FromIsoFormat(d.processed_at) ELSE None]

\* add_child over every entry, in document order: a listed child that was
\* built is appended to the lister's children and gets it as parent (the
\* last lister, should several entries list it).
ReconnectChildren(entry, keys) ==
    LET listed == [j \in DOMAIN entry.value.children_paths |->
                      PathOfStr(entry.value.children_paths[j])]
    IN SelectSeq(listed, LAMBDA c : c \in keys)

ReconnectParent(all, linked, p) ==
    LET listers == { i \in DOMAIN all : p \in Range(linked[i]) }
    IN IF listers = {} THEN NoPath ELSE PathOfStr(all[Max(listers)].key)

\* Mutant: from_dict keeps the counts recorded in the document.
TreeFromDict_recorded_counts(data) ==
    LET all == data.all_nodes
        keys == { PathOfStr(all[i].key) : i \in DOMAIN all }
        linked == Strict([i \in DOMAIN all |-> ReconnectChildren(all[i], keys)])
        entry(p) == Max({ i \in DOMAIN all : PathOfStr(all[i].key) = p })
        nodes == Strict([p \in keys |->
                    [NodeFromDict(p, all[entry(p)].value) EXCEPT
                        !.children = linked[entry(p)],
                        !.parent = ReconnectParent(all, linked, p)]])
    IN [RebuildIndices(nodes, PathOfStr(data.root.path), data.max_depth)
          EXCEPT !.total_nodes = data.total_nodes,
                 !.processed_nodes = data.processed_nodes,
                 !.file_count = data.file_count,
                 !.directory_count = data.directory_count]

TreeFromDict(data) ==
    LET all == data.all_nodes
        keys == { PathOfStr(all[i].key) : i \in DOMAIN all }
        linked == Strict([i \in DOMAIN all |-> ReconnectChildren(all[i], keys)])
        entry(p) == Max({ i \in DOMAIN all : PathOfStr(all[i].key) = p })
        nodes == Strict([p \in keys |->
                    [NodeFromDict(p, all[entry(p)].value) EXCEPT
                        !.children = linked[entry(p)],
                        !.parent = ReconnectParent(all, linked, p)]])
    IN RebuildIndices(nodes, PathOfStr(data.root.path), data.max_depth)

\* ---------------------------------------------- SynthesisState (state.py)
SessionId == "s1"

NoState ==
    [session_id |-> None, total_nodes |-> 0, processed_nodes |-> 0,
     current_phase |-> None, errors |-> <<>>,
     last_checkpoint |-> None, completed_at |-> None]

NewState(t) ==
    [session_id |-> SessionId, total_nodes |-> t.total_nodes,
     processed_nodes |-> 0, current_phase |-> "processing", errors |-> <<>>,
     last_checkpoint |-> None, completed_at |-> None]

StateToDict(st) ==
    [session_id |-> st.session_id, total_nodes |-> st.total_nodes,
     processed_nodes |-> st.processed_nodes,
     current_phase |-> st.current_phase, errors |-> st.errors,
     last_checkpoint |-> IF st.last_checkpoint # None
                         THEN IsoFormat(st.last_checkpoint) ELSE None,
     completed_at |-> IF st.completed_at # None
                      THEN IsoFormat(st.completed_at) ELSE None]

StateFromDict(d) ==
    [session_id |-> d.session_id, total_nodes |-> d.total_nodes,
     processed_nodes |-> d.processed_nodes,
     current_phase |-> d.current_phase, errors |-> d.errors,
     last_checkpoint |-> IF d.last_checkpoint # None
                         THEN FromIsoFormat(d.last_checkpoint) ELSE None,
     completed_at |-> IF d.completed_at # None
                      THEN FromIsoFormat(d.completed_at) ELSE None]

\* ------------------------------------------------------------------ state
VARIABLES
    fs,            \* the repository on disk (unchanged during the runs)
    pc,            \* where the running synthesize() stands
    ctx,           \* the caller of the save in progress
    tree,          \* RepoSynthesizer.tree (NoTree: None)
    state,         \* RepoSynthesizer.state (NoState: None)
    batch,         \* _process_nodes: the batch being processed
    idx,           \* _process_nodes: position of the current node in batch
    state_file,    \* state.json: <<>> when absent, else <<document>>
    tree_file,     \* tree.json: <<>> when absent, else <<document>>
    report,        \* the final report at output_path: number of times written
    resumes,       \* runs started with resume_session so far
    ioFailures,    \* failed writes so far (MaxFaults bounds their sum)
    calls,         \* history: per path, _process_single_node calls of this run
    queries,       \* history: per path, session.query calls of this run
    resumed,       \* history: <<tree document>> _resume loaded in this run
    finished,      \* history: paths whose synthesis has returned in some run
    unsaved,       \* history: paths marked since the last completed checkpoint
    initialized,   \* history: the initial checkpoint of the session completed
    unreadable,    \* history: the file _resume could not parse in this run
    backups,       \* the backups directory: the names of its files
    created        \* history: per kind, the stamp of its last backup

vars == <<fs, pc, ctx, tree, state, batch, idx, state_file, tree_file, report,
          resumes, ioFailures, calls, queries, resumed, finished, unsaved,
          initialized, unreadable, backups, created>>

disk == <<state_file, tree_file, report>>
history == <<calls, queries, resumed, finished, unsaved, initialized,
             unreadable>>

ZeroCalls == [p \in Paths |-> 0]

\* The backups directory is written and pruned, and read by nothing else.
\* Where the directory is not followed, NotFollowed stands for its content.
NotFollowed == {<<"not followed", 0>>}

InitWith(repositories, backup_dir) ==
    /\ fs \in repositories
    /\ pc = "start"
    /\ ctx = None
    /\ tree = NoTree
    /\ state = NoState
    /\ batch = <<>>
    /\ idx = 0
    /\ state_file = <<>>
    /\ tree_file = <<>>
    /\ report = 0
    /\ resumes = 0
    /\ ioFailures = 0
    /\ calls = ZeroCalls
    /\ queries = ZeroCalls
    /\ resumed = <<>>
    /\ finished = {}
    /\ unsaved = {}
    /\ initialized = FALSE
    /\ unreadable = {}
    /\ backups = backup_dir
    /\ created = [state |-> 0, tree |-> 0, moved |-> {"state", "tree"}]

Init == InitWith(FileSystems, NotFollowed)

\* ------------------------------------------------ exceptions (orchestrator)
\* Mutant: the handler of synthesize closes the session it logs the error in.
HandlerState_completes(st, msg) ==
    [st EXCEPT !.errors = Append(@, msg), !.completed_at = Now]

\* synthesize, "except Exception": log the error in the session state, save
\* the state, re-raise. Without a state object the exception leaves at once.
HandlerState(st, msg) == [st EXCEPT !.errors = Append(@, msg)]

RaiseToSynthesize(st, msg) ==
    IF st # NoState
    THEN /\ state' = HandlerState(st, msg)
         /\ pc' = "save_state_backup"
         /\ ctx' = "handler"
    ELSE /\ state' = st
         /\ pc' = "failed"
         /\ ctx' = None

\* _process_nodes, "except Exception" around one node of the batch: record
\* the error on the node, mark it processed, checkpoint.
ExceptBranchTree(t, p, msg) ==
    mark_processed([t EXCEPT !.nodes[p].error = msg], p)

\* Mutant: the error path of the loop marks the node and goes on to the
\* next node without a checkpoint.
RaiseFromSave_no_checkpoint(st, msg) ==
    CASE ctx = "try" ->
            /\ tree' = ExceptBranchTree(tree, batch[idx], msg)
            /\ state' = st
            /\ pc' = "loop"
            /\ ctx' = None
            /\ unsaved' = unsaved \cup {batch[idx]}
      [] ctx = "handler" ->
            /\ state' = st
            /\ pc' = "failed"
            /\ ctx' = None
            /\ UNCHANGED <<tree, unsaved>>
      [] OTHER ->
            /\ RaiseToSynthesize(st, msg)
            /\ UNCHANGED <<tree, unsaved>>

\* An exception raised by a save with caller ctx, the session state being st.
RaiseFromSave(st, msg) ==
    CASE ctx = "try" ->
            /\ tree' = ExceptBranchTree(tree, batch[idx], msg)
            /\ state' = st
            /\ pc' = "save_state_backup"
            /\ ctx' = "except"
            /\ unsaved' = unsaved \cup {batch[idx]}
      [] ctx = "handler" ->
            /\ state' = st
            /\ pc' = "failed"
            /\ ctx' = None
            /\ UNCHANGED <<tree, unsaved>>
      [] OTHER ->
            /\ RaiseToSynthesize(st, msg)
            /\ UNCHANGED <<tree, unsaved>>

\* ------------------------------------------------- StateManager (state.py)
StateJson == "state.json"
TreeJson == "tree.json"

\* write_json_with_retry: the document replaces the destination in one step.
write_json_with_retry(doc) == <<doc>>

\* read_json_with_retry of a file that exists: its parsed document. Whether
\* the read raises instead (bytes that do not parse) is an input of the
\* caller, named raises.
read_json_with_retry(file) == file[1]

\* load_state: None for a missing file and for one that cannot be read.
load_state(raises) ==
    IF state_file = <<>> THEN NoState
    ELSE IF raises THEN NoState
         ELSE StateFromDict(read_json_with_retry(state_file))

\* Mutant: a missing or unreadable tree.json is replaced by a fresh tree.
load_tree_or_build(raises) ==
    IF tree_file = <<>> \/ raises
    THEN build_tree(fs, DefaultMaxDepth, CHOOSE l \in Listings(fs) : TRUE)
    ELSE TreeFromDict(read_json_with_retry(tree_file))

\* load_tree: None for a missing file and for one that cannot be read.
load_tree(raises) ==
    IF tree_file = <<>> THEN NoTree
    ELSE IF raises THEN NoTree
         ELSE TreeFromDict(read_json_with_retry(tree_file))

\* What a call returns: a value, or an exception.
Returned(v) == [raised |-> FALSE, value |-> v]
Raised == [raised |-> TRUE, value |-> FALSE]

SessionIds == {SessionId, "s2"}

\* Mutant: can_resume does not look at completed_at.
can_resume_completed(session_id, raises) ==
    IF state_file = <<>> THEN Returned(FALSE)
    ELSE IF raises THEN Returned(FALSE)
         ELSE Returned(read_json_with_retry(state_file).session_id = session_id)

can_resume(session_id, raises) ==
    IF state_file = <<>> THEN Returned(FALSE)
    ELSE IF raises THEN Returned(FALSE)
         ELSE Returned(/\ read_json_with_retry(state_file).session_id = session_id
                       /\ read_json_with_retry(state_file).completed_at = None)

\* A backup is named by its kind and the second it was made in, as
\* state_<stamp>.json or tree_<stamp>.json. The stamp of a backup is the
\* rank of its second among the seconds in which backups of its kind were
\* made: created[kind] is the stamp of the last one, and created.moved holds
\* the kinds whose last backup dates from an earlier second than the last
\* reading of the clock.
Kinds == {"state", "tree"}
BackupName(kind, stamp) == <<kind, stamp>>

\* datetime.now() at a backup: passed tells whether the clock shows a later
\* second than it did at the backup before, of either kind.
ClockReadings == IF created.moved = Kinds THEN {TRUE} ELSE BOOLEAN
Moved(passed) == IF passed THEN Kinds ELSE created.moved
BackupStamp(kind, passed) ==
    IF kind \in Moved(passed) THEN created[kind] + 1 ELSE created[kind]
Stamped(kind, passed) ==
    [created EXCEPT ![kind] = BackupStamp(kind, passed),
                    !.moved = Moved(passed) \ {kind}]

\* The order of sorted() on the file names: "state_..." sorts before
\* "tree_...", names of one kind by their stamp.
NameBefore(a, b) ==
    \/ a[1] = "state" /\ b[1] = "tree"
    \/ a[1] = b[1] /\ a[2] < b[2]

SortedNames(dir) ==
    [i \in 1..Cardinality(dir) |->
        CHOOSE a \in dir : Cardinality({ b \in dir : NameBefore(b, a) }) = i - 1]

\* backups[: -keep_count * 2], for a list longer than keep_count * 2.
AllButLast(names, k) == { names[i] : i \in 1..(Len(names) - k) }

\* Mutant: the backups are never pruned.
cleanup_old_backups_keeps_all(dir, keep_count) == dir

\* _cleanup_old_backups: the directory after the call.
cleanup_old_backups(dir, keep_count) ==
    IF Cardinality(dir) > keep_count * 2
    THEN dir \ AllButLast(SortedNames(dir), keep_count * 2)
    ELSE dir

\* save_state, lines 115-121: an existing state.json is moved to backups,
\* and the backups are pruned.
SaveStateBackup ==
    /\ pc = "save_state_backup"
    /\ IF state_file # <<>> /\ backups # NotFollowed
       THEN \E passed \in ClockReadings :
              /\ backups' = cleanup_old_backups(
                              backups \cup {BackupName("state",
                                                       BackupStamp("state", passed))},
                              KeepCount)
              /\ created' = Stamped("state", passed)
       ELSE UNCHANGED <<backups, created>>
    /\ state_file' = <<>>
    /\ pc' = "save_state_write"
    /\ UNCHANGED <<fs, ctx, tree, state, batch, idx, tree_file, report,
                   resumes, ioFailures, history>>

AfterSaveState ==
    CASE ctx = "final" -> "done"
      [] ctx = "handler" -> "failed"
      [] OTHER -> "save_tree_backup"

\* save_state, lines 124-128: stamp the state and write it.
SaveStateWrite ==
    /\ pc = "save_state_write"
    /\ state' = [state EXCEPT !.last_checkpoint = Now]
    /\ state_file' = write_json_with_retry(StateToDict(state'))
    /\ pc' = AfterSaveState
    /\ ctx' = IF AfterSaveState = "save_tree_backup" THEN ctx ELSE None
    /\ UNCHANGED <<fs, tree, batch, idx, tree_file, report, resumes,
                   ioFailures, history,
                   backups, created>>

\* save_state, lines 124-132: the write fails and the exception is re-raised.
SaveStateWriteFails ==
    /\ pc = "save_state_write"
    /\ resumes + ioFailures < MaxFaults
    /\ ioFailures' = ioFailures + 1
    /\ RaiseFromSave([state EXCEPT !.last_checkpoint = Now], "write failed")
    /\ UNCHANGED <<fs, batch, idx, disk, resumes, calls, queries, resumed,
                   finished, initialized, unreadable,
                   backups, created>>

\* save_tree, lines 153-156: an existing tree.json is moved to backups.
SaveTreeBackup ==
    /\ pc = "save_tree_backup"
    /\ IF tree_file # <<>> /\ backups # NotFollowed
       THEN \E passed \in ClockReadings :
              /\ backups' = backups \cup {BackupName("tree",
                                                     BackupStamp("tree", passed))}
              /\ created' = Stamped("tree", passed)
       ELSE UNCHANGED <<backups, created>>
    /\ tree_file' = <<>>
    /\ pc' = "save_tree_write"
    /\ UNCHANGED <<fs, ctx, tree, state, batch, idx, state_file, report,
                   resumes, ioFailures, history>>

\* save_tree, lines 159-162, and the return of checkpoint() to its caller:
\* _initialize goes on to the loop, the loop to the next node of the batch.
SaveTreeWrite ==
    /\ pc = "save_tree_write"
    /\ tree_file' = write_json_with_retry(TreeToDict(tree))
    /\ unsaved' = {}
    /\ initialized' = TRUE
    /\ IF ctx = "init"
       THEN /\ pc' = "loop"
            /\ idx' = idx
       ELSE /\ pc' = IF idx < Len(batch) THEN "node" ELSE "loop"
            /\ idx' = idx + 1
    /\ ctx' = None
    /\ UNCHANGED <<fs, tree, state, batch, state_file, report, resumes,
                   ioFailures, calls, queries, resumed, finished, unreadable,
                   backups, created>>

\* save_tree, lines 159-166: the write fails and the exception is re-raised.
SaveTreeWriteFails ==
    /\ pc = "save_tree_write"
    /\ resumes + ioFailures < MaxFaults
    /\ ioFailures' = ioFailures + 1
    /\ RaiseFromSave(state, "write failed")
    /\ UNCHANGED <<fs, batch, idx, disk, resumes, calls, queries, resumed,
                   finished, initialized, unreadable,
                   backups, created>>

\* ------------------------------------------- RepoSynthesizer (orchestrator)
TooLarge == "File too large for detailed analysis"
EmptyDirectory == "Empty directory or no processable content"
NoSynthesis == "No synthesis generated"
JsonSynthesis == "json.dumps(parsed)"
ErrorSynthesis == "Error: e"

\* What read_text returns for a file: its length in characters, here on
\* either side of the size threshold.
FileLengths == {LargeFileThreshold, LargeFileThreshold + 1}
\* What session.query and parse_llm_json can yield.
QueryOutcomes == {"dict", "other", "raise"}

\* _initialize: build the tree, create the state, start the first checkpoint.
Initialize ==
    /\ pc = "start"
    /\ \E listing \in Listings(fs) :
         tree' = build_tree(fs, DefaultMaxDepth, listing)
    /\ state' = NewState(tree')
    /\ pc' = "save_state_backup"
    /\ ctx' = "init"
    /\ UNCHANGED <<fs, batch, idx, disk, resumes, ioFailures, history,
                   backups, created>>

\* _process_nodes, lines 190-196: fetch the next batch, leave when empty.
NextBatch ==
    /\ pc = "loop"
    /\ batch' = get_next_batch(tree)
    /\ IF batch' = <<>>
       THEN pc' = "final" /\ idx' = 0
       ELSE pc' = "node" /\ idx' = 1
    /\ UNCHANGED <<fs, ctx, tree, state, disk, resumes, ioFailures, history,
                   backups, created>>

\* The node after the query of the collaborator answered with outcome o.
AfterQuery(node, o) ==
    CASE o = "dict" ->
            [node EXCEPT !.synthesis = JsonSynthesis,
                         !.key_insights = <<"insight">>]
      [] o = "other" ->
            [node EXCEPT !.synthesis = NoSynthesis, !.key_insights = <<>>]
      [] o = "raise" ->
            [node EXCEPT !.synthesis = ErrorSynthesis, !.error = "e"]

\* ------------------------------------ PaperTrailManager (paper_trail.py)
\* The paper trail of a run: none (paper_trail = False), one that is
\* written, one whose every write fails.
PaperTrails == {"disabled", "written", "failing"}

\* Mutant: save_* without their try block, a failed write raises.
save_to_paper_trail_raises(trail) ==
    IF trail = "failing" THEN Raised ELSE Returned("path")

\* save_node_content, save_prompt, save_response, save_synthesis,
\* save_final_report: the path written, None when the write failed (the
\* exception is caught inside the method).
save_to_paper_trail(trail) ==
    IF trail = "failing" THEN Returned(None) ELSE Returned("path")

\* "if self.paper_trail_manager: self.paper_trail_manager.save_...(...)":
\* whether the statement raises.
PaperTrailRaises(trail) ==
    trail # "disabled" /\ save_to_paper_trail(trail).raised

\* One paper trail for each way a paper trail statement can end: the paper
\* trails a node step has to be tried with.
PaperTrailCases ==
    { CHOOSE trail \in PaperTrails : PaperTrailRaises(trail) = r
        : r \in { PaperTrailRaises(trail) : trail \in PaperTrails } }

\* Mutant: _process_file_node without the size test of line 247.
process_file_node_no_limit(node, len, o, trail) ==
    IF len < 0
    THEN [node EXCEPT !.synthesis = ErrorSynthesis, !.error = "e"]
    ELSE IF PaperTrailRaises(trail)
         THEN [node EXCEPT !.content = <<len>>,
                           !.synthesis = ErrorSynthesis, !.error = "e"]
         ELSE AfterQuery([node EXCEPT !.content = <<len>>], o)

\* _process_file_node with the file read as len characters (-1: the read
\* raises), the collaborator answering o and the paper trail trail. An
\* exception of the first paper trail call (line 254) would end the try
\* block before the query.
process_file_node(node, len, o, trail) ==
    IF len < 0
    THEN [node EXCEPT !.synthesis = ErrorSynthesis, !.error = "e"]
    ELSE IF len > LargeFileThreshold
         THEN [node EXCEPT !.content = <<len>>, !.synthesis = TooLarge]
         ELSE IF PaperTrailRaises(trail)
              THEN [node EXCEPT !.content = <<len>>,
                                !.synthesis = ErrorSynthesis, !.error = "e"]
              ELSE AfterQuery([node EXCEPT !.content = <<len>>], o)

FileQueried(len, trail) ==
    len >= 0 /\ len <= LargeFileThreshold /\ ~PaperTrailRaises(trail)

ChildSyntheses(t, node) ==
    SelectSeq(node.children, LAMBDA c : t.nodes[c].synthesis # None)

\* _process_directory_node with the collaborator answering o and the paper
\* trail trail (first paper trail call: line 308).
process_directory_node(t, node, o, trail) ==
    IF ChildSyntheses(t, node) = <<>>
    THEN [node EXCEPT !.synthesis = EmptyDirectory]
    ELSE IF PaperTrailRaises(trail)
         THEN [node EXCEPT !.synthesis = ErrorSynthesis, !.error = "e"]
         ELSE AfterQuery(node, o)

DirectoryQueried(t, node, trail) ==
    ChildSyntheses(t, node) # <<>> /\ ~PaperTrailRaises(trail)

\* _process_single_node on path p, then mark_processed (lines 201-204).
process_single_node(t, p, len, o, trail) ==
    IF is_file(t.nodes[p])
    THEN process_file_node(t.nodes[p], len, o, trail)
    ELSE process_directory_node(t, t.nodes[p], o, trail)

\* Mutant: the insights of a node are also stored on its parent.
ProcessedTree_touches_parent(t, p, len, o, trail) ==
    LET node == process_single_node(t, p, len, o, trail)
        done == mark_processed([t EXCEPT !.nodes[p] = node], p)
    IN IF node.parent = NoPath THEN done
       ELSE [done EXCEPT !.nodes[node.parent].key_insights = node.key_insights]

ProcessedTree(t, p, len, o, trail) ==
    mark_processed(
        [t EXCEPT !.nodes[p] = process_single_node(t, p, len, o, trail)], p)

Queried(t, p, len, trail) ==
    IF is_file(t.nodes[p]) THEN FileQueried(len, trail)
    ELSE DirectoryQueried(t, t.nodes[p], trail)

\* _process_nodes, lines 199-210: one node of the batch up to its checkpoint.
ProcessNode ==
    /\ pc = "node"
    /\ LET p == batch[idx]
       IN /\ calls[p] < MaxCallsPerRun
          /\ \E len \in FileLengths, o \in QueryOutcomes,
                trail \in PaperTrailCases :
               /\ tree' = ProcessedTree(tree, p, len, o, trail)
               /\ queries' = [queries EXCEPT
                                ![p] = @ + (IF Queried(tree, p, len, trail)
                                            THEN 1 ELSE 0)]
          /\ state' = [state EXCEPT !.processed_nodes = tree'.processed_nodes]
          /\ calls' = [calls EXCEPT ![p] = @ + 1]
          /\ finished' = finished \cup {p}
          /\ unsaved' = unsaved \cup {p}
    /\ pc' = "save_state_backup"
    /\ ctx' = "try"
    /\ UNCHANGED <<fs, batch, idx, disk, resumes, ioFailures, resumed,
                   initialized, unreadable,
                   backups, created>>

NodesWithSynthesis(t) ==
    Cardinality({ i \in DOMAIN t.node_map :
                    /\ t.nodes[t.node_map[i]].synthesis # None
                    /\ t.nodes[t.node_map[i]].synthesis # EmptyDirectory })

\* Mutant: the session is marked completed before the collaborator is
\* queried (lines 396-398 moved above line 380).
GenerateFinal_marks_first ==
    /\ pc = "final"
    /\ \/ /\ NodesWithSynthesis(tree) = 0
          /\ RaiseToSynthesize(state, "no synthesis content")
          /\ report' = report
       \/ /\ NodesWithSynthesis(tree) > 0
          /\ RaiseToSynthesize([state EXCEPT !.current_phase = "completed",
                                             !.completed_at = Now],
                               "final query failed")
          /\ report' = report
       \/ /\ NodesWithSynthesis(tree) > 0
          /\ report' = report + 1
          /\ \E trail \in PaperTrailCases :
               IF PaperTrailRaises(trail)
               THEN RaiseToSynthesize(state, "paper trail failed")
               ELSE /\ state' = [state EXCEPT !.current_phase = "completed",
                                              !.completed_at = Now]
                    /\ pc' = "save_state_backup"
                    /\ ctx' = "final"
    /\ UNCHANGED <<fs, tree, batch, idx, state_file, tree_file, resumes,
                   ioFailures, history, backups, created>>

\* _generate_final_synthesis: refuse a tree without synthesis content, query
\* the collaborator, write the report, copy it to the paper trail, mark the
\* state completed and save it.
GenerateFinal ==
    /\ pc = "final"
    /\ \/ /\ NodesWithSynthesis(tree) = 0
          /\ RaiseToSynthesize(state, "no synthesis content")
          /\ report' = report
       \/ /\ NodesWithSynthesis(tree) > 0
          /\ RaiseToSynthesize(state, "final query failed")
          /\ report' = report
       \/ /\ NodesWithSynthesis(tree) > 0
          /\ report' = report + 1
          /\ \E trail \in PaperTrailCases :
               IF PaperTrailRaises(trail)
               THEN RaiseToSynthesize(state, "paper trail failed")
               ELSE /\ state' = [state EXCEPT !.current_phase = "completed",
                                              !.completed_at = Now]
                    /\ pc' = "save_state_backup"
                    /\ ctx' = "final"
    /\ UNCHANGED <<fs, tree, batch, idx, state_file, tree_file, resumes,
                   ioFailures, history,
                   backups, created>>

\* The exceptions "except Exception" catches: not a KeyboardInterrupt, which
\* derives from BaseException.
\* Mutant: "except Exception" written as a bare "except:".
except_Exception_bare(exc) == TRUE

except_Exception(exc) == exc = "Exception"

\* An interrupt while the collaborator call of a node is in flight. The
\* KeyboardInterrupt passes the "except Exception" of the node (285, 332),
\* of the loop (219) and of synthesize (113); "except KeyboardInterrupt"
\* (108-111) logs and re-raises to the caller, the node left as it is.
\* Were it caught at the node, it would be recorded there as a failed call.
Interrupt ==
    /\ pc = "node"
    /\ LET p == batch[idx]
       IN /\ calls[p] < MaxCallsPerRun
          /\ \E len \in FileLengths, trail \in PaperTrailCases :
               /\ Queried(tree, p, len, trail)
               /\ IF except_Exception("KeyboardInterrupt")
                  THEN /\ tree' = ProcessedTree(tree, p, len, "raise", trail)
                       /\ state' = [state EXCEPT
                                      !.processed_nodes = tree'.processed_nodes]
                       /\ unsaved' = unsaved \cup {p}
                       /\ pc' = "save_state_backup"
                       /\ ctx' = "try"
                  ELSE /\ tree' = IF is_file(tree.nodes[p])
                                  THEN [tree EXCEPT !.nodes[p].content = <<len>>]
                                  ELSE tree
                       /\ state' = state
                       /\ unsaved' = unsaved
                       /\ pc' = "interrupted"
                       /\ ctx' = None
          /\ calls' = [calls EXCEPT ![p] = @ + 1]
          /\ queries' = [queries EXCEPT ![p] = @ + 1]
    /\ UNCHANGED <<fs, batch, idx, disk, resumes, ioFailures, resumed,
                   finished, initialized, unreadable, backups, created>>

\* The process dies (kill, power loss, interrupt): memory is lost, the
\* files stay as they are.
Running == {"save_state_backup", "save_state_write", "save_tree_backup",
            "save_tree_write", "loop", "node", "final"}

Crash ==
    /\ pc \in Running
    /\ pc' = "crashed"
    /\ ctx' = None
    /\ tree' = NoTree
    /\ state' = NoState
    /\ batch' = <<>>
    /\ idx' = 0
    /\ unsaved' = {}
    /\ UNCHANGED <<fs, disk, resumes, ioFailures, calls, queries, resumed,
                   finished, initialized, unreadable,
                   backups, created>>

\* A new process with resume_session set, after a run that ended in one of
\* the ways of stopped: _resume, lines 162-177.
ResumeFrom(stopped) ==
    /\ pc \in stopped
    /\ resumes + ioFailures < MaxFaults
    /\ resumes' = resumes + 1
    /\ calls' = ZeroCalls
    /\ queries' = ZeroCalls
    /\ unsaved' = {}
    /\ batch' = <<>>
    /\ idx' = 0
    /\ \E stateRaises \in BOOLEAN :
       \E treeRaises \in IF stateRaises THEN {FALSE} ELSE BOOLEAN :
         LET st == load_state(stateRaises)
             t == load_tree(treeRaises)
         IN /\ IF st = NoState
               THEN /\ tree' = NoTree
                    /\ RaiseToSynthesize(NoState, "state not found")
               ELSE IF t = NoTree
                    THEN /\ tree' = NoTree
                         /\ RaiseToSynthesize(st, "tree not found")
                    ELSE /\ tree' = t
                         /\ state' = st
                         /\ pc' = "loop"
                         /\ ctx' = None
            /\ unreadable' =
                 IF state_file # <<>> /\ stateRaises THEN {StateJson}
                 ELSE IF state_file # <<>> /\ tree_file # <<>> /\ treeRaises
                      THEN {TreeJson} ELSE {}
    /\ resumed' = IF pc' = "loop" THEN tree_file ELSE <<>>
    /\ UNCHANGED <<fs, disk, ioFailures, finished, initialized,
                   backups, created>>

\* The session identifier of a run that crashed, failed or was interrupted
\* is given to a new run.
Resume == ResumeFrom({"crashed", "failed", "interrupted"})

Next ==
    \/ Initialize
    \/ NextBatch
    \/ ProcessNode
    \/ SaveStateBackup
    \/ SaveStateWrite
    \/ SaveStateWriteFails
    \/ SaveTreeBackup
    \/ SaveTreeWrite
    \/ SaveTreeWriteFails
    \/ GenerateFinal
    \/ Interrupt
    \/ Crash
    \/ Resume

Spec == Init /\ [][Next]_vars

\* ------------------------------------------ resuming a completed session
\* The session identifier of a run that returned its report is given to a
\* new run: synthesize calls _resume whenever resume_session is set.
ResumeCompleted == ResumeFrom({"done"})

NextRerun ==
    \/ Next
    \/ ResumeCompleted

SpecRerun == Init /\ [][NextRerun]_vars

\* ------------------------------------------------ the tree on its own
\* The operations that build or change the tree, applied without the
\* session files: build, the loop's two branches, a to_dict / from_dict
\* reload as done by save_tree and load_tree.
TreeBuild ==
    /\ pc = "start"
    /\ \E listing \in Listings(fs) :
         tree' = build_tree(fs, DefaultMaxDepth, listing)
    /\ pc' = "loop"
    /\ UNCHANGED <<fs, ctx, state, batch, idx, disk, resumes, ioFailures,
                   history,
                   backups, created>>

\* One node of the batch: the try branch, or the try branch followed by
\* the except branch (lines 219-223).
TreeProcess ==
    /\ pc = "node"
    /\ \E len \in FileLengths, o \in QueryOutcomes, trail \in PaperTrailCases,
          failed \in BOOLEAN :
         tree' = IF failed
                 THEN ExceptBranchTree(
                          ProcessedTree(tree, batch[idx], len, o, trail),
                          batch[idx], "write failed")
                 ELSE ProcessedTree(tree, batch[idx], len, o, trail)
    /\ pc' = IF idx < Len(batch) THEN "node" ELSE "loop"
    /\ idx' = idx + 1
    /\ UNCHANGED <<fs, ctx, state, batch, disk, resumes, ioFailures, history,
                   backups, created>>

TreeReload ==
    /\ pc \in {"loop", "node", "final"}
    /\ tree' = TreeFromDict(write_json_with_retry(TreeToDict(tree))[1])
    /\ UNCHANGED <<fs, pc, ctx, state, batch, idx, disk, resumes, ioFailures,
                   history,
                   backups, created>>

\* The counts a tree.json can record, all of them wrong for a non-empty tree
\* of at most MaxNodes nodes.
RecordedCounts == {0, MaxNodes + 1}

WithRecordedCounts(doc, k) ==
    [doc EXCEPT !.total_nodes = k, !.processed_nodes = k,
                !.file_count = k, !.directory_count = k]

\* load_tree before the loop starts, of a tree.json that records the tree
\* with counts of its own.
TreeLoad ==
    /\ pc = "loop"
    /\ \E k \in RecordedCounts :
         tree' = TreeFromDict(WithRecordedCounts(TreeToDict(tree), k))
    /\ UNCHANGED <<fs, pc, ctx, state, batch, idx, disk, resumes, ioFailures,
                   history,
                   backups, created>>

NextTree ==
    \/ TreeBuild
    \/ NextBatch
    \/ TreeProcess
    \/ TreeReload
    \/ TreeLoad

SpecTree == Init /\ [][NextTree]_vars

\* ------------------------------------------- the backups of a long run
\* The checkpoints of a run one after the other, the backups directory
\* followed: the initial checkpoint, then checkpoint() called again and
\* again as the loop does after every node.
InitBackups == InitWith(FileSystems, {})

CheckpointAgain ==
    /\ pc = "loop"
    /\ created.state + 1 < MaxCheckpoints
    /\ pc' = "save_state_backup"
    /\ ctx' = "init"
    /\ UNCHANGED <<fs, tree, state, batch, idx, disk, resumes, ioFailures,
                   history, backups, created>>

NextBackups ==
    \/ Initialize
    \/ CheckpointAgain
    \/ SaveStateBackup
    \/ SaveStateWrite
    \/ SaveTreeBackup
    \/ SaveTreeWrite

SpecBackups == InitBackups /\ [][NextBackups]_vars

\* ----------------------------------------------------- derived quantities
RECURSIVE Descendants(_, _)
RECURSIVE DescendantsAll(_, _)
Descendants(t, p) == DescendantsAll(t, t.nodes[p].children)
DescendantsAll(t, cs) ==
    IF cs = <<>> THEN {}
    ELSE {Head(cs)} \cup Descendants(t, Head(cs)) \cup DescendantsAll(t, Tail(cs))

TreePaths(t) == Range(t.node_map)
ProcessedPaths(t) == { p \in TreePaths(t) : t.nodes[p].processed }

DocProcessed(doc) ==
    { PathOfStr(doc.all_nodes[i].key) :
        i \in { j \in DOMAIN doc.all_nodes : doc.all_nodes[j].value.processed } }
DocEntry(doc, p) ==
    doc.all_nodes[CHOOSE i \in DOMAIN doc.all_nodes :
                      PathOfStr(doc.all_nodes[i].key) = p].value

\* The paths recorded as processed in tree.json (none when it is absent).
PersistedProcessed == IF tree_file = <<>> THEN {} ELSE DocProcessed(tree_file[1])

\* -------------------------------------------- a run without any failure
\* One fresh run in which every collaborator call returns or raises and
\* every write succeeds, up to the end of the loop. The code is sequential:
\* once the tree is built, each statement is followed by the next one, hence
\* the weak fairness of the steps of the loop and of its checkpoints.
LoopStep ==
    \/ NextBatch
    \/ ProcessNode
    \/ SaveStateBackup
    \/ SaveStateWrite
    \/ SaveTreeBackup
    \/ SaveTreeWrite

NextLoop ==
    \/ Initialize
    \/ LoopStep

SpecLoop == Init /\ [][NextLoop]_vars /\ WF_vars(LoopStep)

\* ------------------------------------------------- build_tree on its own
\* TreeBuilder.build_tree over repositories where a listing may fail, with
\* any depth limit and any listing order; the same builder called a second
\* time; the tree written and read back as save_tree and load_tree do.
MaxDepths == (0..MaxNodes) \cup {DefaultMaxDepth}

InitBuild == InitWith(FileSystemsWithFailures, NotFollowed)

BuildTree ==
    /\ pc = "start"
    /\ \E maxDepth \in MaxDepths, listing \in Listings(fs) :
         tree' = build_tree(fs, maxDepth, listing)
    /\ pc' = "built"
    /\ UNCHANGED <<fs, ctx, state, batch, idx, disk, resumes, ioFailures,
                   history, backups, created>>

\* build_tree again, same builder (same max_depth), same repository.
BuildTreeAgain ==
    /\ pc = "built"
    /\ \E listing \in Listings(fs) :
         tree' = build_tree(fs, tree.max_depth, listing)
    /\ pc' = "rebuilt"
    /\ UNCHANGED <<fs, ctx, state, batch, idx, disk, resumes, ioFailures,
                   history, backups, created>>

BuildReload ==
    /\ pc \in {"built", "rebuilt"}
    /\ tree' = TreeFromDict(write_json_with_retry(TreeToDict(tree))[1])
    /\ pc' = "loaded"
    /\ UNCHANGED <<fs, ctx, state, batch, idx, disk, resumes, ioFailures,
                   history, backups, created>>

\* The tree of the first build goes through the loop of _process_nodes:
\* get_next_batch, then mark_processed for each node of the batch (what the
\* node gets as synthesis does not matter to get_next_batch).
BuildEntersLoop ==
    /\ pc = "built"
    /\ pc' = "loop"
    /\ UNCHANGED <<fs, ctx, tree, state, batch, idx, disk, resumes,
                   ioFailures, history, backups, created>>

BuildMark ==
    /\ pc = "node"
    /\ tree' = mark_processed(tree, batch[idx])
    /\ pc' = IF idx < Len(batch) THEN "node" ELSE "loop"
    /\ idx' = idx + 1
    /\ UNCHANGED <<fs, ctx, state, batch, disk, resumes, ioFailures, history,
                   backups, created>>

NextBuild ==
    \/ BuildTree
    \/ BuildTreeAgain
    \/ BuildReload
    \/ BuildEntersLoop
    \/ NextBatch
    \/ BuildMark

SpecBuild == InitBuild /\ [][NextBuild]_vars

\* ------------------------------------------------------------------ claims

\* C1: in every reachable tree, built, processed or resumed, get_next_batch
\* returns no directory node that has a child with processed = FALSE.
C1_BatchHasNoUnreadyDirectory ==
    [](tree # NoTree =>
         LET next == get_next_batch(tree) IN
           \A i \in DOMAIN next :
             LET node == tree.nodes[next[i]] IN
               is_directory(node) =>
                 \A j \in DOMAIN node.children :
                    tree.nodes[node.children[j]].processed)

\* A resumed tree whose next batch holds a directory with children, while
\* another directory still waits for an unprocessed child.
C1_Witness ==
    /\ tree # NoTree
    /\ resumed # <<>>
    /\ LET next == get_next_batch(tree) IN
         \E i \in DOMAIN next :
           /\ is_directory(tree.nodes[next[i]])
           /\ tree.nodes[next[i]].children # <<>>
    /\ \E p \in TreePaths(tree) :
         /\ is_directory(tree.nodes[p])
         /\ \E j \in DOMAIN tree.nodes[p].children :
              ~tree.nodes[tree.nodes[p].children[j]].processed

\* C2: in a fresh or resumed run a directory is synthesized, and is marked
\* processed, only when every node of its subtree is marked processed.
C2_SubtreeBeforeDirectory ==
    [](tree # NoTree =>
         LET done == ProcessedPaths(tree) IN
           /\ \A p \in done : Descendants(tree, p) \subseteq done
           /\ pc = "node" => Descendants(tree, batch[idx]) \subseteq done)

\* The root, with a grandchild below it, processed in a resumed run.
C2_Witness ==
    /\ tree # NoTree
    /\ resumed # <<>>
    /\ RootPath \notin DocProcessed(resumed[1])
    /\ tree.nodes[RootPath].processed
    /\ \E q \in Descendants(tree, RootPath) : tree.nodes[q].depth = 2

\* C3: a resumed run never processes (nor queries the collaborator for) a
\* node the loaded checkpoint records as processed, leaves its synthesis as
\* recorded, and has processed every other node exactly once when its loop
\* ends.
C3_ResumeNoDuplicateWork ==
    (resumed # <<>> /\ tree # NoTree) =>
      LET recorded == DocProcessed(resumed[1]) IN
      \A p \in TreePaths(tree) :
        IF p \in recorded
        THEN /\ calls[p] = 0
             /\ queries[p] = 0
             /\ tree.nodes[p].synthesis = DocEntry(resumed[1], p).synthesis
        ELSE /\ calls[p] <= 1
             /\ pc \in {"final", "done"} => calls[p] = 1

\* The loop of a resumed run has ended; the checkpoint held a processed
\* node and an unprocessed one.
C3_Witness ==
    /\ resumed # <<>>
    /\ tree # NoTree
    /\ pc = "final"
    /\ DocProcessed(resumed[1]) # {}
    /\ TreePaths(tree) \ DocProcessed(resumed[1]) # {}

\* C4: at most one node is marked processed without a completed checkpoint,
\* and when the synthesis of a node begins, state.json and tree.json are
\* written and tree.json records every node marked so far.
C4_CheckpointBeforeNextNode ==
    /\ Cardinality(unsaved) <= 1
    /\ pc = "node" =>
         /\ unsaved = {}
         /\ state_file # <<>>
         /\ tree_file # <<>>
         /\ PersistedProcessed = ProcessedPaths(tree)

\* The next node is about to be synthesized after a node went through the
\* error path of the loop.
C4_Witness ==
    /\ pc = "node"
    /\ idx > 1
    /\ \E p \in TreePaths(tree) : tree.nodes[p].error = "write failed"

\* C5: after the initial checkpoint, at every crash point state.json and
\* tree.json both exist.
C5_FilesExistAtEveryCrashPoint ==
    (initialized /\ pc = "crashed") => (state_file # <<>> /\ tree_file # <<>>)

\* C6: whenever both files exist, the session record's processed_nodes is
\* the number of nodes the persisted tree records as processed.
C6_CheckpointIsAtomicSnapshot ==
    (pc = "crashed" /\ state_file # <<>> /\ tree_file # <<>>) =>
      state_file[1].processed_nodes = Cardinality(DocProcessed(tree_file[1]))

\* C7: at every crash point at most one node has finished its synthesis
\* without being recorded as processed in tree.json.
C7_AtMostOneNodeLost ==
    pc = "crashed" => Cardinality(finished \ PersistedProcessed) <= 1

\* C8: tree.processed_nodes is the number of nodes whose processed flag is
\* set.
C8_ProcessedCounterExact ==
    tree # NoTree =>
      tree.processed_nodes = Cardinality(ProcessedPaths(tree))

NodeRecordComplete(n) ==
    n.processed => (n.processed_at # None /\ (n.synthesis # None \/ n.error # None))

\* C9: in memory and in tree.json, every processed node has processed_at
\* set and a synthesis or an error.
C9_ProcessedNodesComplete ==
    /\ tree # NoTree =>
         \A p \in TreePaths(tree) : NodeRecordComplete(tree.nodes[p])
    /\ tree_file # <<>> =>
         \A i \in DOMAIN tree_file[1].all_nodes :
            NodeRecordComplete(tree_file[1].all_nodes[i].value)

\* A processed empty directory and a node processed through the error path
\* of the loop, both in memory and in tree.json.
C9_Witness ==
    /\ tree # NoTree
    /\ tree_file # <<>>
    /\ \E p \in ProcessedPaths(tree) \cap PersistedProcessed :
         tree.nodes[p].synthesis = EmptyDirectory
    /\ \E p \in ProcessedPaths(tree) \cap PersistedProcessed :
         tree.nodes[p].error = "write failed"

\* C10: from_dict(to_dict(tree)) has the same paths, the same parent and
\* child links and, per node, the same processed flag, synthesis and error.
C10_RoundTrip ==
    tree # NoTree =>
      LET back == TreeFromDict(TreeToDict(tree)) IN
        /\ TreePaths(back) = TreePaths(tree)
        /\ DOMAIN back.nodes = DOMAIN tree.nodes
        /\ back.root = tree.root
        /\ \A p \in TreePaths(tree) :
             /\ back.nodes[p].parent = tree.nodes[p].parent
             /\ back.nodes[p].children = tree.nodes[p].children
             /\ back.nodes[p].processed = tree.nodes[p].processed
             /\ back.nodes[p].synthesis = tree.nodes[p].synthesis
             /\ back.nodes[p].error = tree.nodes[p].error

\* A tree with a file, an empty directory, a node with an error, processed
\* and unprocessed nodes.
C10_Witness ==
    /\ tree # NoTree
    /\ \E p \in TreePaths(tree) : is_file(tree.nodes[p])
    /\ \E p \in TreePaths(tree) :
         is_directory(tree.nodes[p]) /\ tree.nodes[p].children = <<>>
    /\ \E p \in TreePaths(tree) : tree.nodes[p].error # None
    /\ ProcessedPaths(tree) # {}
    /\ ProcessedPaths(tree) # TreePaths(tree)

\* The nodes a traversal from the root reaches.
Reachable(t) == {t.root} \cup Descendants(t, t.root)

IndicesAreFresh(t) ==
    /\ Range(t.node_map) = Reachable(t)
    /\ Len(t.node_map) = Cardinality(Reachable(t))
    /\ t.total_nodes = Cardinality(Reachable(t))
    /\ t.processed_nodes =
         Cardinality({ p \in Reachable(t) : t.nodes[p].processed })
    /\ t.file_count = Cardinality({ p \in Reachable(t) : is_file(t.nodes[p]) })
    /\ t.directory_count =
         Cardinality({ p \in Reachable(t) : is_directory(t.nodes[p]) })
    /\ \A d \in 0..t.max_depth :
         Range(DepthMapAt(t, d)) = { p \in Reachable(t) : t.nodes[p].depth = d }

\* C11: the tree from_dict returns (a step that loads the tree where the
\* loop starts) has total_nodes, processed_nodes, file_count,
\* directory_count and depth index as a traversal of its linked nodes gives
\* them, whatever counts the document records.
C11_FromDictRecounts ==
    [][(pc = "loop" /\ pc' = "loop") => IndicesAreFresh(tree')]_vars

\* A tree with files and directories that holds a node marked twice (try
\* and except branch, which leaves processed_nodes one too high) and whose
\* content has been cut by to_dict: it has been reloaded since, and its
\* counter is exact again.
C11_Witness ==
    /\ tree # NoTree
    /\ pc = "loop"
    /\ \E p \in TreePaths(tree) : tree.nodes[p].error = "write failed"
    /\ \E p \in TreePaths(tree) : tree.nodes[p].content = <<ContentKeep>>
    /\ \E p \in TreePaths(tree) : is_directory(tree.nodes[p])
    /\ tree.processed_nodes = Cardinality(ProcessedPaths(tree))
    /\ tree.processed_nodes < tree.total_nodes

\* C12: can_resume(session_id) returns true exactly when state.json exists,
\* parses, records that session_id and records no completed_at; it returns
\* false, and raises nothing, for a missing file and for one that does not
\* parse.
C12_CanResume ==
    \A sid \in SessionIds, raises \in BOOLEAN :
      can_resume(sid, raises) =
        Returned(/\ state_file # <<>>
                 /\ ~raises
                 /\ state_file[1].session_id = sid
                 /\ state_file[1].completed_at = None)

\* An interrupted session: resumable under its own identifier when its
\* state.json parses, not when it does not, and not under another
\* identifier.
C12_Witness ==
    /\ pc = "crashed"
    /\ state_file # <<>>
    /\ can_resume(SessionId, FALSE) = Returned(TRUE)
    /\ can_resume(SessionId, TRUE) = Returned(FALSE)
    /\ can_resume("s2", FALSE) = Returned(FALSE)

\* C13: a run started with resume_session that finds state.json or tree.json
\* missing or unparseable builds no tree, queries the collaborator for no
\* node and only logs the error before it raises to the caller.
C13_ResumeRefused ==
    [][/\ (/\ resumes' = resumes + 1
           /\ \/ state_file = <<>>
              \/ tree_file = <<>>
              \/ unreadable' # {})
          => /\ tree' = NoTree
             /\ calls' = ZeroCalls
             /\ queries' = ZeroCalls
             /\ pc' = "failed" \/ ctx' = "handler"
       /\ (ctx = "handler" /\ tree = NoTree)
          => /\ tree' = NoTree
             /\ queries' = queries
             /\ ctx' = "handler" \/ pc' \in {"failed", "crashed"}]_vars

\* A resume that found both files and could not parse tree.json has raised
\* to the caller.
C13_Witness ==
    /\ pc = "failed"
    /\ resumes > 0
    /\ resumed = <<>>
    /\ unreadable = {TreeJson}
    /\ state_file # <<>>
    /\ tree_file # <<>>
    /\ tree = NoTree

\* C14: a run in which a checkpoint of the processing loop failed (the node
\* then carries the write failure) raises to the caller: it never stands at
\* a next batch, a next node, the final synthesis or its end.
C14_CheckpointFailurePropagates ==
    (resumes = 0 /\ \E p \in TreePaths(tree) :
                      tree.nodes[p].error = "write failed")
      => pc \notin {"loop", "node", "final", "done"}

\* C15: a node whose collaborator call raised is marked processed, carries
\* the reason of that failure as its error and is queried at most once in
\* the run.
C15_CollaboratorFailureRecorded ==
    \A p \in TreePaths(tree) :
      tree.nodes[p].synthesis = ErrorSynthesis =>
        /\ tree.nodes[p].processed
        /\ tree.nodes[p].error = "e"
        /\ queries[p] <= 1

\* C16: every node that carries an error has an entry in the session's error
\* log.
C16_NodeErrorsInSessionLog ==
    (tree # NoTree /\ state # NoState) =>
      Cardinality({ p \in TreePaths(tree) : tree.nodes[p].error # None })
        <= Len(state.errors)

\* C17: with a tree in which the synthesis of every node failed, the run
\* writes no report, does not mark the session completed and does not end
\* normally.
C17_ZeroSynthesisRunFails ==
    (tree # NoTree /\ \A p \in TreePaths(tree) :
                        tree.nodes[p].synthesis = ErrorSynthesis)
      => /\ report = 0
         /\ state.completed_at = None
         /\ pc # "done"

\* C18: the final synthesis is made (report written, session completed) only
\* with a tree in which some node holds a synthesis the collaborator
\* answered; sentinel and error texts do not count.
C18_FinalNeedsGenuineSynthesis ==
    (tree # NoTree /\ (ctx = "final" \/ pc = "done")) =>
      \E p \in TreePaths(tree) :
        tree.nodes[p].synthesis \in {JsonSynthesis, NoSynthesis}

\* C19: processing a directory none of whose children produced a synthesis
\* (no children, or each child failed or was skipped as too large) makes no
\* collaborator call and sets the "no content" sentinel.
C19_NoChildSynthesisNoQuery ==
    [][(/\ pc = "node"
        /\ calls' # calls
        /\ is_directory(tree.nodes[batch[idx]])
        /\ \A j \in DOMAIN tree.nodes[batch[idx]].children :
              tree.nodes[tree.nodes[batch[idx]].children[j]].synthesis
                \in {ErrorSynthesis, TooLarge})
         => /\ queries'[batch[idx]] = queries[batch[idx]]
            /\ tree'.nodes[batch[idx]].synthesis = EmptyDirectory]_vars

\* C20: a file read with more than LargeFileThreshold characters, and a file
\* a loaded checkpoint records as too large, is processed, holds the "too
\* large" sentinel and has caused no collaborator call in the run.
C20_LargeFileNeverQueried ==
    \A p \in TreePaths(tree) :
      LET n == tree.nodes[p] IN
        (is_file(n) /\ (\/ n.synthesis = TooLarge
                        \/ (n.content # <<>> /\ n.content[1] > LargeFileThreshold)))
          => /\ n.processed
             /\ n.synthesis = TooLarge
             /\ queries[p] = 0

\* A resumed run whose checkpoint records a too large file and which has
\* itself read another too large file.
C20_Witness ==
    /\ resumed # <<>>
    /\ tree # NoTree
    /\ \E p \in DocProcessed(resumed[1]) : tree.nodes[p].synthesis = TooLarge
    /\ \E q \in TreePaths(tree) \ DocProcessed(resumed[1]) :
         /\ calls[q] = 1
         /\ tree.nodes[q].content = <<LargeFileThreshold + 1>>

\* The backups of one kind in the directory, and the most recent k of the
\* n names given so far (the backups made in one second bear one name).
Retained(kind) == { a \in backups : a[1] = kind }
MostRecent(kind, k, n) == { BackupName(kind, i) : i \in (n - k + 1)..n }

\* C21: when save_state has pruned the backups, the directory holds, of each
\* kind, exactly the most recent min(KeepCount, n) of the n backups of that
\* kind made so far.
C21_BackupsPrunedPerKind ==
    (pc = "save_state_write" /\ backups # NotFollowed) =>
      \A kind \in {"state", "tree"} :
        Retained(kind) =
          MostRecent(kind,
                     IF created[kind] < KeepCount THEN created[kind] ELSE KeepCount,
                     created[kind])

\* C22: the phase of the session moves along initializing, processing,
\* finalizing, completed: from one step of the run to the next it stays or
\* moves to the next phase of that order, so that a session reaches
\* completed from finalizing only.
C22_PhaseOrder ==
    [][(state # NoState /\ state' # NoState) =>
         LET order == <<"initializing", "processing", "finalizing", "completed">>
             rank(ph) == CHOOSE i \in DOMAIN order : order[i] = ph
         IN /\ state.current_phase \in Range(order)
            /\ state'.current_phase \in Range(order)
            /\ rank(state'.current_phase) >= rank(state.current_phase)
            /\ rank(state'.current_phase) <= rank(state.current_phase) + 1]_vars

\* A session record, in memory or in state.json, that is marked completed.
IsCompleted(st) == st.current_phase = "completed" \/ st.completed_at # None

\* C23: a session record marked completed, in memory or in state.json, has
\* completed_at set exactly with the phase completed, and exists only after
\* the final collaborator call has returned (the report is written) with
\* every node of the tree, in memory and in tree.json, processed.
C23_CompletedOnlyAfterFinal ==
    /\ state # NoState =>
         (state.current_phase = "completed" <=> state.completed_at # None)
    /\ state_file # <<>> =>
         (state_file[1].current_phase = "completed"
            <=> state_file[1].completed_at # None)
    /\ (\/ state # NoState /\ IsCompleted(state)
        \/ state_file # <<>> /\ IsCompleted(state_file[1]))
       => /\ report > 0
          /\ tree # NoTree => ProcessedPaths(tree) = TreePaths(tree)
          /\ tree_file # <<>> =>
               \A i \in DOMAIN tree_file[1].all_nodes :
                  tree_file[1].all_nodes[i].value.processed

\* The run has ended normally: the session is completed in memory and in
\* state.json, over a tree of several nodes.
C23_Witness ==
    /\ pc = "done"
    /\ state.current_phase = "completed"
    /\ state_file # <<>>
    /\ state_file[1].completed_at # None
    /\ tree.total_nodes > 1
    /\ report = 1

\* C24: when the final collaborator call raises, the exception goes to the
\* handler of synthesize, which leaves completed_at and the report as they
\* are and raises to the caller; a resume of a session whose log records
\* that failure finds no node to process, so that its only collaborator
\* call is the final one.
C24_FinalFailureIsFatal ==
    [][/\ (pc = "final"
             /\ state'.errors = Append(state.errors, "final query failed"))
          => /\ ctx' = "handler"
             /\ state'.completed_at = state.completed_at
             /\ report' = report
       /\ ctx = "handler"
          => /\ pc' \in {"save_state_write", "failed", "crashed"}
             /\ state' # NoState => state'.completed_at = state.completed_at
             /\ report' = report
       /\ (resumes' = resumes + 1 /\ pc' = "loop"
             /\ "final query failed" \in Range(state'.errors))
          => /\ get_next_batch(tree') = <<>>
             /\ calls' = ZeroCalls
             /\ queries' = ZeroCalls
       /\ (resumed # <<>> /\ pc = "loop"
             /\ "final query failed" \in Range(state.errors))
          => /\ pc' \in {"final", "crashed"}
             /\ queries' = queries]_vars

\* A session whose final collaborator call had failed has been resumed and
\* has ended normally, having made no call for any of its nodes.
C24_Witness ==
    /\ pc = "done"
    /\ resumed # <<>>
    /\ "final query failed" \in Range(state.errors)
    /\ state.completed_at # None
    /\ tree.total_nodes > 1
    /\ calls = ZeroCalls
    /\ queries = ZeroCalls
    /\ report = 1

\* What tree.json records of a node whose synthesis has not been made.
Untouched(entry) ==
    /\ ~entry.processed
    /\ entry.content = <<>>
    /\ entry.synthesis = None
    /\ entry.key_insights = <<>>
    /\ entry.processed_at = None

\* C25: an interrupt during the collaborator call of a node writes nothing:
\* state.json and tree.json stay as the last checkpoint left them, with the
\* node recorded as not processed and without content or synthesis; and
\* every tree.json written at any time records as processed only nodes
\* whose synthesis has returned, and nothing of the others.
C25_NoCheckpointOfPartialNode ==
    [][/\ pc' = "interrupted"
          => /\ state_file' = state_file
             /\ tree_file' = tree_file
             /\ tree_file # <<>>
             /\ Untouched(DocEntry(tree_file[1], batch[idx]))
       /\ (tree_file' # tree_file /\ tree_file' # <<>>)
          => \A i \in DOMAIN tree_file'[1].all_nodes :
                \/ PathOfStr(tree_file'[1].all_nodes[i].key) \in finished'
                \/ Untouched(tree_file'[1].all_nodes[i].value)]_vars

\* The call for a file was interrupted after the file had been read, in a
\* run that had completed another node before.
C25_Witness ==
    /\ pc = "interrupted"
    /\ PersistedProcessed # {}
    /\ batch[idx] \notin PersistedProcessed
    /\ tree.nodes[batch[idx]].content # <<>>
    /\ ~tree.nodes[batch[idx]].processed

\* C26: whatever the file read and the collaborator yield for the node in
\* turn, the step with a paper trail, written or failing, leaves the same
\* tree (synthesis, key_insights, error and processed of every node) and
\* makes the same collaborator call as the step without paper trail; and no
\* paper trail write raises into a node step or the final step.
C26_PaperTrailIsTransparent ==
    /\ pc = "node" =>
         \A len \in FileLengths, o \in QueryOutcomes, trail \in PaperTrails :
            /\ ProcessedTree(tree, batch[idx], len, o, trail)
                 = ProcessedTree(tree, batch[idx], len, o, "disabled")
            /\ Queried(tree, batch[idx], len, trail)
                 = Queried(tree, batch[idx], len, "disabled")
    /\ pc \in {"node", "final"} =>
         \A trail \in PaperTrails : ~PaperTrailRaises(trail)

\* A directory that has a child with a synthesis is about to be processed,
\* after a file that was queried: both kinds of node make paper trail calls.
C26_Witness ==
    /\ pc = "node"
    /\ is_directory(tree.nodes[batch[idx]])
    /\ ChildSyntheses(tree, tree.nodes[batch[idx]]) # <<>>
    /\ \E p \in TreePaths(tree) :
         /\ is_file(tree.nodes[p])
         /\ queries[p] = 1
         /\ tree.nodes[p].synthesis = JsonSynthesis

\* What the claim compares of two trees: the node set and, per node, its
\* parent, its children in order and its depth.
Shape(t) ==
    [p \in TreePaths(t) |->
       <<t.nodes[p].parent, t.nodes[p].children, t.nodes[p].depth>>]

\* C27: a second build_tree call of the same builder over the same
\* repository yields the same node set, parent and child links, child order
\* and depths as the first, whatever order iterdir() lists the entries in at
\* either call.
C27_BuildTreeDeterministic ==
    [][(pc = "built" /\ pc' = "rebuilt") => Shape(tree') = Shape(tree)]_vars

\* A tree built twice that has a directory with two entries.
C27_Witness ==
    /\ pc = "rebuilt"
    /\ \E p \in TreePaths(tree) : Len(tree.nodes[p].children) >= 2

\* C28: in a tree returned by build_tree no node is deeper than max_depth, a
\* directory at depth max_depth has no children, max_depth = 0 gives the
\* root alone, and a node has an error only where a listing was tried and
\* failed: never for reaching the limit.
C28_DepthLimit ==
    pc \in {"built", "rebuilt"} =>
      /\ \A p \in TreePaths(tree) :
           LET n == tree.nodes[p] IN
             /\ n.depth <= tree.max_depth
             /\ (is_directory(n) /\ n.depth = tree.max_depth)
                  => n.children = <<>>
             /\ n.error # None
                  => (n.depth < tree.max_depth /\ fs.iterdir[p] # "listed")
      /\ tree.max_depth = 0 => TreePaths(tree) = {RootPath}

\* A directory below the root sits at the depth limit; it has entries on
\* disk and could not be listed.
C28_Witness ==
    /\ pc = "built"
    /\ \E p \in TreePaths(tree) \ {RootPath} :
         /\ is_directory(tree.nodes[p])
         /\ tree.nodes[p].depth = tree.max_depth
         /\ FsChildSet(fs, p) # {}
         /\ fs.iterdir[p] # "listed"

\* The depth of an entry on disk, and the entries build_tree can reach:
\* within the depth limit, below directories that can be listed.
FsDepth(f, i) == Cardinality(FsAncestorsOrSelf(f, i)) - 1
WithinReach(f, maxDepth) ==
    { i \in 1..f.n :
        /\ FsDepth(f, i) <= maxDepth
        /\ \A a \in FsAncestorsOrSelf(f, f.parent[i]) : f.iterdir[a] = "listed" }

\* C29: build_tree returns a tree whatever listing fails; a directory whose
\* listing failed has its error set (the text of lines 160 and 163) and no
\* node at or below its entries, and the tree holds every other entry
\* within the depth limit.
C29_ListingFailureRecorded ==
    pc \in {"built", "rebuilt"} =>
      /\ tree # NoTree
      /\ TreePaths(tree) = WithinReach(fs, tree.max_depth)
      /\ \A p \in TreePaths(tree) :
           LET n == tree.nodes[p] IN
             (/\ is_directory(n)
              /\ n.depth < tree.max_depth
              /\ fs.iterdir[p] # "listed")
               => /\ n.error = IF fs.iterdir[p] = "PermissionError"
                               THEN "Permission denied" ELSE "str(e)"
                  /\ n.error # None
                  /\ n.children = <<>>
                  /\ \A q \in TreePaths(tree) :
                        p \notin FsAncestorsOrSelf(fs, fs.parent[q])

\* A directory below the root with an entry on disk refuses its listing:
\* the tree holds the directory, with the error, and not the entry.
C29_Witness ==
    /\ pc = "built"
    /\ \E p \in TreePaths(tree) \ {RootPath} :
         /\ fs.iterdir[p] = "PermissionError"
         /\ FsChildSet(fs, p) # {}
         /\ tree.nodes[p].error = "Permission denied"
         /\ FsChildSet(fs, p) \cap TreePaths(tree) = {}
    /\ tree.total_nodes = 2
    /\ fs.n = 3

\* The structural invariants of a tree.
WellLinked(t) ==
    /\ t.nodes[t.root].depth = 0
    /\ t.nodes[t.root].parent = NoPath
    /\ \A q \in TreePaths(t) \ {t.root} :
         /\ Cardinality({ p \in TreePaths(t) :
                            q \in Range(t.nodes[p].children) }) = 1
         /\ t.nodes[q].parent \in TreePaths(t)
         /\ t.nodes[q].depth = t.nodes[t.nodes[q].parent].depth + 1
    /\ \A p \in TreePaths(t), q \in TreePaths(t) :
         q \in Range(t.nodes[p].children) <=> t.nodes[q].parent = p

\* C30: in a tree returned by build_tree, and in the tree from_dict makes of
\* its document, the root has depth 0 and no parent, every other node is in
\* the children of exactly one node, a node is in the children of p exactly
\* when its parent is p, and its depth is its parent's depth plus one.
C30_TreeStructure ==
    pc \in {"built", "rebuilt", "loaded"} => WellLinked(tree)

\* A tree read back by from_dict, with a node at depth 2.
C30_Witness ==
    /\ pc = "loaded"
    /\ \E p \in TreePaths(tree) : tree.nodes[p].depth = 2

\* The counts of a tree that depend on its shape only.
Counts(t) == <<t.total_nodes, t.file_count, t.directory_count>>

\* The fields of a node that processing may not change.
Fixed(node) == <<node.path, node.type, node.depth, node.parent, node.children>>

\* The shape and the counts of the tree of a repository whose directories
\* can all be listed, built without reaching the depth limit.
ShapeOf(f) ==
    [p \in 1..f.n |->
       <<f.parent[p], SortedSeq(FsChildSet(f, p)), FsDepth(f, p)>>]
CountsOf(f) ==
    <<f.n, Cardinality({ p \in 1..f.n : f.kind[p] = "file" }),
      Cardinality({ p \in 1..f.n : f.kind[p] = "directory" })>>

\* C31: a step of a run that changes the tree keeps the node set, the
\* links, the depths and the three counts, and changes no node but the one in
\* turn, of which it keeps path, type, depth, parent and children; a tree
\* that comes into memory, built or loaded from tree.json by a resumed run,
\* has the shape and the counts of the repository.
C31_ProcessingKeepsShape ==
    [][(tree' # tree /\ tree' # NoTree) =>
         IF tree # NoTree /\ resumes' = resumes
         THEN /\ Shape(tree') = Shape(tree)
              /\ Counts(tree') = Counts(tree)
              /\ tree'.node_map = tree.node_map
              /\ \A q \in TreePaths(tree) :
                    /\ Fixed(tree'.nodes[q]) = Fixed(tree.nodes[q])
                    /\ tree'.nodes[q] # tree.nodes[q]
                         => (idx \in DOMAIN batch /\ q = batch[idx])
         ELSE /\ Shape(tree') = ShapeOf(fs)
              /\ Counts(tree') = CountsOf(fs)]_vars

\* A resumed run has processed a directory that has a parent and a child,
\* and is at the checkpoint of that node.
C31_Witness ==
    /\ resumed # <<>>
    /\ pc = "save_state_backup"
    /\ ctx = "try"
    /\ tree.nodes[batch[idx]].parent # NoPath
    /\ tree.nodes[batch[idx]].children # <<>>
    /\ tree.nodes[batch[idx]].processed

\* C32: in a run where every collaborator call returns or raises and every
\* checkpoint write succeeds, the loop, once entered, ends (get_next_batch
\* returns the empty batch) and every node of the tree is then processed.
C32_LoopTerminates ==
    (pc = "loop") ~> (/\ pc = "final"
                      /\ tree # NoTree
                      /\ ProcessedPaths(tree) = TreePaths(tree))

\* The loop has ended over a tree of three levels in which a collaborator
\* call has raised.
C32_Witness ==
    /\ pc = "final"
    /\ \E p \in TreePaths(tree) : tree.nodes[p].depth = 2
    /\ \E p \in TreePaths(tree) : tree.nodes[p].error = "e"

\* C33: for every tree, built with any depth limit and any listing failure
\* and processed up to any point of the loop, get_next_batch returns the
\* empty batch exactly when every node is processed.
C33_NoStall ==
    tree # NoTree =>
      (get_next_batch(tree) = <<>> <=> ProcessedPaths(tree) = TreePaths(tree))

\* The node in turn is a directory cut off by the depth limit (it has
\* entries on disk and no children), with its parent still unprocessed.
C33_Witness ==
    /\ pc = "node"
    /\ idx \in DOMAIN batch
    /\ is_directory(tree.nodes[batch[idx]])
    /\ tree.nodes[batch[idx]].depth = tree.max_depth
    /\ FsChildSet(fs, batch[idx]) # {}
    /\ tree.nodes[batch[idx]].children = <<>>
    /\ ~tree.nodes[RootPath].processed

\* C34: the batch get_next_batch returns holds exactly the unprocessed nodes
\* of the deepest depth that has an unprocessed node, each once, so no node
\* of the batch is below another node of the batch.
C34_BatchAtOneDepth ==
    (tree # NoTree /\ ProcessedPaths(tree) # TreePaths(tree)) =>
      LET next == get_next_batch(tree)
          open == TreePaths(tree) \ ProcessedPaths(tree)
          deepest == Max({ tree.nodes[p].depth : p \in open })
      IN /\ Range(next) = { p \in open : tree.nodes[p].depth = deepest }
         /\ Cardinality(Range(next)) = Len(next)
         /\ \A i \in DOMAIN next, j \in DOMAIN next :
               next[i] \notin Descendants(tree, next[j])

\* A batch of two nodes is in progress, the first one marked, while a
\* shallower node waits.
C34_Witness ==
    /\ pc = "node"
    /\ Len(batch) = 2
    /\ idx = 2
    /\ tree.nodes[batch[1]].processed
    /\ ~tree.nodes[RootPath].processed
    /\ get_next_batch(tree) = <<batch[2]>>

\* C35: when a checkpoint completes (save_tree has written tree.json after
\* save_state has written state.json), state.json records as total_nodes
\* the number of nodes of tree.json and as processed_nodes the number of
\* nodes tree.json marks processed.
C35_StateCountsMirrorTree ==
    [][(pc = "save_tree_write" /\ tree_file' # <<>>) =>
         /\ state_file' # <<>>
         /\ state_file'[1].total_nodes = Len(tree_file'[1].all_nodes)
         /\ state_file'[1].processed_nodes
              = Cardinality(DocProcessed(tree_file'[1]))]_vars

\* C36: when the write of the new content fails in save_state or in
\* save_tree, after a first checkpoint has completed, the destination file
\* is still there afterwards (with the content of the previous checkpoint).
C36_FailedWriteKeepsPrevious ==
    [][(initialized /\ ioFailures' = ioFailures + 1) =>
         /\ pc = "save_state_write" => state_file' # <<>>
         /\ pc = "save_tree_write" => tree_file' # <<>>]_vars

\* C37: whenever synthesize leaves with an exception other than an interrupt
\* and the session state object exists, the error log of the session has an
\* entry for it and state.json holds the session record with that log.
C37_ErrorLoggedAndPersisted ==
    [][(pc' = "failed" /\ pc # "failed" /\ state' # NoState) =>
         /\ state'.errors # <<>>
         /\ state_file' # <<>>
         /\ StateFromDict(state_file'[1]).errors = state'.errors]_vars

C39_BackupNeverOverwritten ==
    [][(backups # NotFollowed) =>
         /\ (pc = "save_state_backup" /\ state_file # <<>>) =>
               BackupName("state", created'.state) \notin backups
         /\ (pc = "save_tree_backup" /\ tree_file # <<>>) =>
               BackupName("tree", created'.tree) \notin backups]_vars

\* C40: a run that resumes a session whose state.json records a completion
\* timestamp queries the collaborator for nothing and leaves the report as
\* it is; a run goes on from _resume to the loop only when can_resume holds
\* for its session.
C40_CompletedSessionNotRerun ==
    [][/\ (resumes' = resumes + 1 /\ pc' = "loop")
          => can_resume(SessionId, FALSE) = Returned(TRUE)
       /\ (resumes > 0 /\ state.completed_at # None
                       /\ pc \in {"loop", "node", "final"})
          => /\ queries' = queries
             /\ report' = report]_vars

====
